---------------------------- MODULE Spec2Model ----------------------------
(***************************************************************************)
(* Model of utils/utils.py of LIF-RC-demo: the label codec                 *)
(* (reservoir_dict_to_str, reservoir_dict_to_int) and the four render      *)
(* functions (plot_reservoir_data, plot_reservoir_activations,             *)
(* plot_reservoir_predictions, plot_results).                              *)
(*                                                                         *)
(* A render function is a straight-line program of matplotlib.pyplot       *)
(* calls.  Each call is modelled as one record ("op"); the function body   *)
(* becomes the sequence of ops it issues up to its return or up to the     *)
(* statement that raises.  pyplot keeps process-wide state (the open       *)
(* figures, the last one being current); it is the variable figs and the   *)
(* ops are interpreted on it by Exec.                                      *)
(***************************************************************************)
EXTENDS Integers, Sequences, FiniteSets, TLC

VARIABLES
    figs,        \* pyplot: the open figures, oldest first; the last is current
    presented,   \* the figures the last call's plt.show() displayed
    trace,       \* the pyplot calls the last render call issued, in order
    outcome,     \* "none" | "ok" | the exception the last render call raised
    call,        \* name of the last render function called ("none" at start)
    args,        \* its arguments
    lookup,      \* the last label-codec call: function, argument, result
    prevLookup   \* the codec call before it

vars == <<figs, presented, trace, outcome, call, args, lookup, prevLookup>>
plotVars == <<figs, presented, trace, outcome, call, args>>
codecVars == <<lookup, prevLookup>>

----------------------------------------------------------------------------
(* Bounds of the model (not program constants).                            *)

\* codec arguments range over -MaxCode .. MaxCode (and 99)
MaxCode == 5
\* sequence lengths reach MaxOver samples beyond a truncation cap
MaxOver == 2
\* rows (timesteps) of a reservoir state grid
MaxRows == 2
\* timesteps of one simulation result
MaxT == 2
\* open figures a session may accumulate
MaxOpenFigs == 2

(* Program constants.                                                      *)
DataCap == 50
ActivationCap == 20
PredictionCap == 70

----------------------------------------------------------------------------
(* Generic helpers.                                                        *)

Min(a, b) == IF a <= b THEN a ELSE b

\* Python's s[:n] on a sequence, n >= 0: the first min(len(s), n) items.
SliceTo(s, n) == SubSeq(s, 1, Min(Len(s), n))

\* Python's range(n) as a sequence: 0, 1, ..., n-1.
PyRange(n) == [k \in 1..n |-> k - 1]

\* Python's f-string / str concatenation.
Fmt(prefix, s) == prefix \o s

----------------------------------------------------------------------------
(* Label codec.                                                            *)

\* a Python call's result: the exception raised ("" if none) and the value
\* returned, wrapped in a tuple (<<>> when the call raised)
Returned(v) == [raised |-> "", value |-> <<v>>]
Raised(e) == [raised |-> e, value |-> <<>>]

int_to_str_swapped ==
    (0 :> "Timesteps") @@ (1 :> "Input Current")
        @@ (2 :> "Spikes") @@ (3 :> "Membrane Potential")

int_to_str ==
    (0 :> "Timesteps") @@ (1 :> "Input Current")
        @@ (2 :> "Membrane Potential") @@ (3 :> "Spikes")

str_to_int ==
    ("Timesteps" :> 0) @@ ("Input Current" :> 1)
        @@ ("Membrane Potential" :> 2) @@ ("Spikes" :> 3)

\* dict.get(input, "Timesteps") in place of int_to_str[input]
reservoir_dict_to_str_default(input) ==
    IF input \in DOMAIN int_to_str
    THEN Returned(int_to_str[input])
    ELSE Returned("Timesteps")

\* int_to_str[input]: a dict subscript raises KeyError for a missing key
reservoir_dict_to_str(input) ==
    IF input \in DOMAIN int_to_str
    THEN Returned(int_to_str[input])
    ELSE Raised("KeyError")

reservoir_dict_to_int(input) ==
    IF input \in DOMAIN str_to_int
    THEN Returned(str_to_int[input])
    ELSE Raised("KeyError")

ValidLabels == {"Timesteps", "Input Current", "Membrane Potential", "Spikes"}
ValidCodes == 0..3
StrInputs == ValidLabels \cup {"bogus", "timesteps", "Spike", ""}
CodeInputs == ((0 - MaxCode)..MaxCode) \cup {99}

NoLookup == [fn |-> "none", arg |-> <<>>, raised |-> "", value |-> <<>>]

Record(fn, input, res) ==
    [fn |-> fn, arg |-> <<input>>, raised |-> res.raised, value |-> res.value]

CallToInt(s) ==
    /\ lookup' = Record("reservoir_dict_to_int", s, reservoir_dict_to_int(s))
    /\ prevLookup' = lookup
    /\ UNCHANGED plotVars

CallToStr(c) ==
    /\ lookup' = Record("reservoir_dict_to_str", c, reservoir_dict_to_str(c))
    /\ prevLookup' = lookup
    /\ UNCHANGED plotVars

----------------------------------------------------------------------------
(* matplotlib.pyplot.                                                      *)
(*                                                                         *)
(* A figure is the sequence of its axes, an axes the sequence of the       *)
(* elements put on it.  An op / element is a record                        *)
(*   op      the pyplot or Axes method                                     *)
(*   ax      0: the call goes through pyplot (current figure and axes);    *)
(*           k > 0: it is made on the k-th axes of the figure that this    *)
(*           call's plt.subplots returned (row-major, two per row)         *)
(*   x, ys   the x values and the y columns (one line per column)          *)
(*   text    the title / axis label / legend label                         *)
(*   fmt     colour and line style                                         *)
(*   entries the legend's entries (filled in when the legend is built)     *)
(* The y-extent of vlines (get_ylim) is not modelled: only positions.      *)

El(op, ax, x, ys, text, fmt) ==
    [op |-> op, ax |-> ax, x |-> x, ys |-> ys, text |-> text, fmt |-> fmt,
     entries |-> <<>>]

\* plt.gcf(): the current figure, created when no figure is open
Gcf(fs) == IF fs = <<>> THEN << <<>> >> ELSE fs

\* plt.gca(): the current axes, created when the figure has none
Gca(fig) == IF fig = <<>> THEN << <<>> >> ELSE fig

RECURSIVE LabelsOf(_)
\* the labels a legend collects: those of the labelled artists of the axes
LabelsOf(axes) ==
    IF axes = <<>> THEN <<>>
    ELSE LET e == axes[1] IN
         (IF e.op \in {"plot", "axhline", "vlines"} /\ e.text # ""
          THEN <<e.text>> ELSE <<>>) \o LabelsOf(Tail(axes))

\* one Line2D per column of ys
LinesOf(e) == [j \in 1..Len(e.ys) |-> [e EXCEPT !.ys = <<e.ys[j]>>]]

\* put element e on an axes: a title, an axis label or a legend replaces the
\* one the axes had; a plot adds its lines; anything else is added
PutOn(axes, e) ==
    LET Other(q) == q.op # e.op IN
    CASE e.op \in {"title", "xlabel", "ylabel"} ->
             Append(SelectSeq(axes, Other), e)
      [] e.op = "legend" ->
             Append(SelectSeq(axes, Other), [e EXCEPT !.entries = LabelsOf(axes)])
      [] e.op = "plot" -> axes \o LinesOf(e)
      [] OTHER -> Append(axes, e)

\* an artist call: through pyplot it lands on the current axes of the
\* current figure, through an Axes handle on that axes of the newest figure
Draw(fs, e) ==
    LET fs1 == IF e.ax = 0 THEN Gcf(fs) ELSE fs
        f == Len(fs1)
        fig == IF e.ax = 0 THEN Gca(fs1[f]) ELSE fs1[f]
        a == IF e.ax = 0 THEN Len(fig) ELSE e.ax
    IN [fs1 EXCEPT ![f] = [fig EXCEPT ![a] = PutOn(fig[a], e)]]

\* one pyplot call on the library state [figs, presented]
Apply(lib, e) ==
    CASE e.op = "figure" -> [lib EXCEPT !.figs = Append(lib.figs, <<>>)]
      [] e.op = "subplots" ->
             [lib EXCEPT !.figs =
                 Append(lib.figs, [k \in 1..(e.x[1] * e.x[2]) |-> <<>>])]
      [] e.op = "tight_layout" -> [lib EXCEPT !.figs = Gcf(lib.figs)]
      [] e.op = "show" ->
             \* displays every open figure; the figures are released once
             \* they have been displayed
             [figs |-> <<>>, presented |-> lib.presented \o lib.figs]
      [] OTHER -> [lib EXCEPT !.figs = Draw(lib.figs, e)]

RECURSIVE Exec(_, _)
Exec(lib, ops) ==
    IF ops = <<>> THEN lib ELSE Exec(Apply(lib, ops[1]), Tail(ops))

\* a render function's run: the ops it issued and how it ended
Done(ops) == [ops |-> ops, err |-> "ok"]
Failed(ops, e) == [ops |-> ops, err |-> e]

\* a render call as one step: its ops act on pyplot's state
Render(name, a, run) ==
    LET lib == Exec([figs |-> figs, presented |-> <<>>], run.ops) IN
    /\ figs' = lib.figs
    /\ presented' = lib.presented
    /\ trace' = run.ops
    /\ outcome' = run.err
    /\ call' = name
    /\ args' = a
    /\ UNCHANGED codecVars

----------------------------------------------------------------------------
(* The render functions.                                                   *)

\* plot_reservoir_data without the [:50] slices
plot_reservoir_data_unsliced(x_train, y_train, reservoir_input_feature, reservoir_target) ==
    Done(<< El("plot", 0, PyRange(Len(x_train)), <<x_train>>,
               Fmt("Reservoir input: ", reservoir_input_feature), ""),
            El("plot", 0, PyRange(Len(y_train)), <<y_train>>,
               Fmt("Reservoir target: ", reservoir_target), ""),
            El("legend", 0, <<>>, <<>>, "", ""),
            El("show", 0, <<>>, <<>>, "", "") >>)

\* the pyplot calls of plot_reservoir_data, in order
plot_reservoir_data_run(x_train, y_train, reservoir_input_feature, reservoir_target) ==
    LET xs == SliceTo(x_train, DataCap)
        ys == SliceTo(y_train, DataCap)
    IN Done(<< El("plot", 0, PyRange(Len(xs)), <<xs>>,
                  Fmt("Reservoir input: ", reservoir_input_feature), ""),
               El("plot", 0, PyRange(Len(ys)), <<ys>>,
                  Fmt("Reservoir target: ", reservoir_target), ""),
               El("legend", 0, <<>>, <<>>, "", ""),
               El("show", 0, <<>>, <<>>, "", "") >>)

plot_reservoir_data(x_train, y_train, reservoir_input_feature, reservoir_target) ==
    Render("plot_reservoir_data",
           [x_train |-> x_train, y_train |-> y_train,
            reservoir_input_feature |-> reservoir_input_feature,
            reservoir_target |-> reservoir_target],
           plot_reservoir_data_run(x_train, y_train, reservoir_input_feature,
                                   reservoir_target))

\* A numpy array: its shape and its items (1-D: the items; 2-D: the rows).
\* a[:, :n] of a 2-D array keeps every row and the first min(C, n) columns.
SliceCols(a, n) ==
    [shape |-> <<a.shape[1], Min(a.shape[2], n)>>,
     data |-> [r \in 1..a.shape[1] |-> SliceTo(a.data[r], n)]]

\* plt.plot of a 2-D array draws its columns
Columns(a) ==
    [j \in 1..a.shape[2] |-> [r \in 1..a.shape[1] |-> a.data[r][j]]]

\* plot_reservoir_activations slicing the rows, reservoir_states[:20]
plot_reservoir_activations_rows(reservoir_states) ==
    LET pre == << El("figure", 0, <<10, 3>>, <<>>, "", ""),
                  El("title", 0, <<>>, <<>>, "Activation of 20 reservoir neurons.", ""),
                  El("ylabel", 0, <<>>, <<>>, "Reservoir activations", ""),
                  El("xlabel", 0, <<>>, <<>>, "Timesteps", "") >>
    IN IF Len(reservoir_states.shape) # 2
       THEN Failed(pre, "IndexError")
       ELSE LET R == Min(reservoir_states.shape[1], ActivationCap)
                shown == [shape |-> <<R, reservoir_states.shape[2]>>,
                          data |-> SliceTo(reservoir_states.data, ActivationCap)]
            IN Done(pre \o << El("plot", 0, PyRange(R), Columns(shown), "", ""),
                              El("show", 0, <<>>, <<>>, "", "") >>)

\* the pyplot calls of plot_reservoir_activations; the subscript [:, :20]
\* raises IndexError on an array that is not 2-D, after the figure, title and
\* axis labels have been made
plot_reservoir_activations_run(reservoir_states) ==
    LET pre == << El("figure", 0, <<10, 3>>, <<>>, "", ""),
                  El("title", 0, <<>>, <<>>, "Activation of 20 reservoir neurons.", ""),
                  El("ylabel", 0, <<>>, <<>>, "Reservoir activations", ""),
                  El("xlabel", 0, <<>>, <<>>, "Timesteps", "") >>
    IN IF Len(reservoir_states.shape) # 2
       THEN Failed(pre, "IndexError")
       ELSE LET shown == SliceCols(reservoir_states, ActivationCap)
            IN Done(pre \o << El("plot", 0, PyRange(shown.shape[1]),
                                 Columns(shown), "", ""),
                              El("show", 0, <<>>, <<>>, "", "") >>)

plot_reservoir_activations(reservoir_states) ==
    Render("plot_reservoir_activations",
           [reservoir_states |-> reservoir_states],
           plot_reservoir_activations_run(reservoir_states))

\* plot_reservoir_predictions slicing y_pred[:70] as well
plot_reservoir_predictions_sliced(x_train, y_train, y_pred, reservoir_input_feature, reservoir_target) ==
    LET xs == SliceTo(x_train, PredictionCap)
        ys == SliceTo(y_train, PredictionCap)
        ps == SliceTo(y_pred, PredictionCap)
    IN Done(<< El("figure", 0, <<10, 3>>, <<>>, "", ""),
               El("title", 0, <<>>, <<>>,
                  "Comparing real data with the reservoirs prediction.", ""),
               El("xlabel", 0, <<>>, <<>>, "Timesteps", ""),
               El("plot", 0, PyRange(Len(xs)), <<xs>>,
                  Fmt("Reservoir input: ", reservoir_input_feature), "green"),
               El("plot", 0, PyRange(Len(ps)), <<ps>>,
                  Fmt("Predicted ", reservoir_target), "blue"),
               El("plot", 0, PyRange(Len(ys)), <<ys>>,
                  Fmt("Actual ", reservoir_target), "red"),
               El("legend", 0, <<>>, <<>>, "", ""),
               El("show", 0, <<>>, <<>>, "", "") >>)

\* the pyplot calls of plot_reservoir_predictions, in order
plot_reservoir_predictions_run(x_train, y_train, y_pred, reservoir_input_feature, reservoir_target) ==
    LET xs == SliceTo(x_train, PredictionCap)
        ys == SliceTo(y_train, PredictionCap)
    IN Done(<< El("figure", 0, <<10, 3>>, <<>>, "", ""),
               El("title", 0, <<>>, <<>>,
                  "Comparing real data with the reservoirs prediction.", ""),
               El("xlabel", 0, <<>>, <<>>, "Timesteps", ""),
               El("plot", 0, PyRange(Len(xs)), <<xs>>,
                  Fmt("Reservoir input: ", reservoir_input_feature), "green"),
               El("plot", 0, PyRange(Len(y_pred)), <<y_pred>>,
                  Fmt("Predicted ", reservoir_target), "blue"),
               El("plot", 0, PyRange(Len(ys)), <<ys>>,
                  Fmt("Actual ", reservoir_target), "red"),
               El("legend", 0, <<>>, <<>>, "", ""),
               El("show", 0, <<>>, <<>>, "", "") >>)

plot_reservoir_predictions(x_train, y_train, y_pred, reservoir_input_feature, reservoir_target) ==
    Render("plot_reservoir_predictions",
           [x_train |-> x_train, y_train |-> y_train, y_pred |-> y_pred,
            reservoir_input_feature |-> reservoir_input_feature,
            reservoir_target |-> reservoir_target],
           plot_reservoir_predictions_run(x_train, y_train, y_pred,
                                          reservoir_input_feature, reservoir_target))

----------------------------------------------------------------------------
(* plot_results.                                                           *)
(*                                                                         *)
(* results is an ordered dict: here the sequence of its items, each a      *)
(* record of the label and the tuple (time, input_current,                 *)
(* membrane_potential, spikes).  param_sets is a function from labels to   *)
(* objects with a v_threshold attribute.                                   *)

\* tensor.bool(): an item is True when it is not zero
ToBool(spikes) == [k \in DOMAIN spikes |-> spikes[k] # 0]

RECURSIVE MaskSelect(_, _)
\* time[mask]: the items of time at the positions where mask is True
MaskSelect(time, mask) ==
    IF time = <<>> THEN <<>>
    ELSE (IF mask[1] THEN <<time[1]>> ELSE <<>>)
             \o MaskSelect(Tail(time), Tail(mask))

\* spike times taken as the positions of the spikes, not the time values
SpikeTimesByIndex(time, spikes) == MaskSelect(PyRange(Len(time)), ToBool(spikes))

\* spike_times = time[spikes.bool()]
SpikeTimes(time, spikes) == MaskSelect(time, ToBool(spikes))

\* the loop body of the single-plot case (num_sets == 1) for one item:
\* axs1 = axs[0], axs2 = axs[1]; param_sets[label] raises KeyError while the
\* arguments of axhline are evaluated
SingleRow(item, param_sets) ==
    LET label == item.label
        pre == << El("title", 1, <<>>, <<>>, Fmt(label, " - Input Current"), ""),
                  El("plot", 1, item.time, <<item.input_current>>, "", ""),
                  El("xlabel", 1, <<>>, <<>>, "Timesteps", ""),
                  El("ylabel", 1, <<>>, <<>>, "Current", ""),
                  El("title", 2, <<>>, <<>>, Fmt(label, " - Membrane Potential"), ""),
                  El("plot", 2, item.time, <<item.membrane_potential>>, "", "") >>
    IN IF label \notin DOMAIN param_sets
       THEN Failed(pre, "KeyError")
       ELSE Done(pre \o
              << El("axhline", 2, <<>>, << <<param_sets[label].v_threshold>> >>,
                    "Threshold", "r--"),
                 El("xlabel", 2, <<>>, <<>>, "Timesteps", ""),
                 El("ylabel", 2, <<>>, <<>>, "Voltage", ""),
                 El("legend", 2, <<>>, <<>>, "", ""),
                 El("vlines", 2, SpikeTimes(item.time, item.spikes), <<>>, "", "r") >>)

\* GridRow looking param_sets[label] up at the top of the loop body
GridRowLookupFirst(i, item, param_sets) ==
    LET label == item.label
        left == 2 * i + 1
        right == 2 * i + 2
    IN IF label \notin DOMAIN param_sets
       THEN Failed(<<>>, "KeyError")
       ELSE Done(
              << El("title", left, <<>>, <<>>, Fmt(label, " - Input Current"), ""),
                 El("plot", left, PyRange(Len(item.input_current)),
                    <<item.input_current>>, "", ""),
                 El("xlabel", left, <<>>, <<>>, "Timesteps", ""),
                 El("ylabel", left, <<>>, <<>>, "Current", ""),
                 El("title", right, <<>>, <<>>, Fmt(label, " - Membrane Potential"), ""),
                 El("plot", right, PyRange(Len(item.membrane_potential)),
                    <<item.membrane_potential>>, "", ""),
                 El("axhline", right, <<>>, << <<param_sets[label].v_threshold>> >>,
                    "Threshold", "r--"),
                 El("axhline", right, <<>>, << <<0>> >>, "RP", "grey--"),
                 El("xlabel", right, <<>>, <<>>, "Timesteps", ""),
                 El("ylabel", right, <<>>, <<>>, "Membrane Potential", ""),
                 El("legend", right, <<>>, <<>>, "", ""),
                 El("vlines", right, SpikeTimes(item.time, item.spikes), <<>>, "", "r") >>)

\* the loop body of the general case for the item at Python index i:
\* axs[i, 0] and axs[i, 1] are axes 2i+1 and 2i+2 of the grid
GridRow(i, item, param_sets) ==
    LET label == item.label
        left == 2 * i + 1
        right == 2 * i + 2
        pre == << El("title", left, <<>>, <<>>, Fmt(label, " - Input Current"), ""),
                  El("plot", left, PyRange(Len(item.input_current)),
                     <<item.input_current>>, "", ""),
                  El("xlabel", left, <<>>, <<>>, "Timesteps", ""),
                  El("ylabel", left, <<>>, <<>>, "Current", ""),
                  El("title", right, <<>>, <<>>, Fmt(label, " - Membrane Potential"), ""),
                  El("plot", right, PyRange(Len(item.membrane_potential)),
                     <<item.membrane_potential>>, "", "") >>
    IN IF label \notin DOMAIN param_sets
       THEN Failed(pre, "KeyError")
       ELSE Done(pre \o
              << El("axhline", right, <<>>, << <<param_sets[label].v_threshold>> >>,
                    "Threshold", "r--"),
                 El("axhline", right, <<>>, << <<0>> >>, "RP", "grey--"),
                 El("xlabel", right, <<>>, <<>>, "Timesteps", ""),
                 El("ylabel", right, <<>>, <<>>, "Membrane Potential", ""),
                 El("legend", right, <<>>, <<>>, "", ""),
                 El("vlines", right, SpikeTimes(item.time, item.spikes), <<>>, "", "r") >>)

\* the rows filled from the items in reverse order
RowOfReversed(i, results, param_sets) ==
    IF Len(results) = 1
    THEN SingleRow(results[i + 1], param_sets)
    ELSE GridRow(i, results[Len(results) - i], param_sets)

\* the i-th iteration (Python index i) of whichever loop num_sets selects
RowOf(i, results, param_sets) ==
    IF Len(results) = 1
    THEN SingleRow(results[i + 1], param_sets)
    ELSE GridRow(i, results[i + 1], param_sets)

RECURSIVE Rows(_, _, _)
\* for i, (label, ...) in enumerate(results.items()), from index i on: the
\* loop ends at the first row that raises
Rows(i, results, param_sets) ==
    IF i >= Len(results) THEN Done(<<>>)
    ELSE LET row == RowOf(i, results, param_sets) IN
         IF row.err # "ok" THEN row
         ELSE LET rest == Rows(i + 1, results, param_sets) IN
              [ops |-> row.ops \o rest.ops, err |-> rest.err]

\* plot_results with plt.show() in a finally clause
plot_results_run_finally(results, param_sets, strict) ==
    LET num_sets == Len(results)
        grid == El("subplots", 0, <<num_sets, 2>>, <<>>, "", "")
        rows == Rows(0, results, param_sets)
        show == El("show", 0, <<>>, <<>>, "", "")
    IN IF num_sets = 0 /\ strict
       THEN Failed(<< El("figure", 0, <<10, 0>>, <<>>, "", ""), show >>, "ValueError")
       ELSE IF rows.err # "ok"
            THEN Failed(<<grid>> \o rows.ops \o <<show>>, rows.err)
            ELSE Done(<<grid>> \o rows.ops
                      \o << El("tight_layout", 0, <<>>, <<>>, "", ""), show >>)

\* the pyplot calls of plot_results.  plt.subplots(0, 2) on an empty results:
\* a matplotlib that checks the grid (strict) raises ValueError once the
\* figure is made, one that does not returns an empty grid and the function
\* goes on to show the empty figure.
plot_results_run(results, param_sets, strict) ==
    LET num_sets == Len(results)
        grid == El("subplots", 0, <<num_sets, 2>>, <<>>, "", "")
        rows == Rows(0, results, param_sets)
    IN IF num_sets = 0 /\ strict
       THEN Failed(<< El("figure", 0, <<10, 0>>, <<>>, "", "") >>, "ValueError")
       ELSE IF rows.err # "ok"
            THEN Failed(<<grid>> \o rows.ops, rows.err)
            ELSE Done(<<grid>> \o rows.ops
                      \o << El("tight_layout", 0, <<>>, <<>>, "", ""),
                            El("show", 0, <<>>, <<>>, "", "") >>)

plot_results(results, param_sets, strict) ==
    Render("plot_results",
           [results |-> results, param_sets |-> param_sets],
           plot_results_run(results, param_sets, strict))

----------------------------------------------------------------------------
(* Arguments the callers pass.                                             *)

\* lengths around a truncation cap: empty, one sample, cap-1 .. cap+MaxOver
LenCases(cap) == {0, 1} \cup ((cap - 1)..(cap + MaxOver))

Ramp(n) == [k \in 1..n |-> k]
Fall(n) == [k \in 1..n |-> n + 1 - k]
Even(n) == [k \in 1..n |-> 2 * k]

FeatureNames == {"I", "Input Current"}
TargetNames == {"V", "Membrane Potential"}

\* an R x C grid of distinct activations, and a 1-D array of n items
Grid(R, C) ==
    [shape |-> <<R, C>>, data |-> [r \in 1..R |-> [c \in 1..C |-> 100 * r + c]]]
Vector(n) == [shape |-> <<n>>, data |-> Ramp(n)]

StateInputs ==
    {Grid(R, C) : R \in 0..MaxRows, C \in LenCases(ActivationCap)}
        \cup {Vector(n) : n \in 0..MaxRows}

\* simulation results: per label a run of T timesteps (time 10, 20, ...)
\* whose input current and membrane potential differ from each other and
\* between labels, and any spike train over {0, 1, 2}
Labels == {"low", "high"}
Level(label) == IF label = "low" THEN 1 ELSE 3
Item(label, spikes) ==
    [label |-> label,
     time |-> [k \in DOMAIN spikes |-> 10 * k],
     input_current |-> [k \in DOMAIN spikes |-> Level(label)],
     membrane_potential |-> [k \in DOMAIN spikes |-> 5 * Level(label) + k],
     spikes |-> spikes]
SpikeTrains == UNION {[1..T -> {0, 1, 2}] : T \in 0..MaxT}
Items == {Item(l, sp) : l \in Labels, sp \in SpikeTrains}

\* the items of a dict have distinct keys
DistinctLabels(r) == \A i, j \in DOMAIN r : r[i].label = r[j].label => i = j
ResultsInputs ==
    {r \in UNION {[1..n -> Items] : n \in 0..Cardinality(Labels)} : DistinctLabels(r)}

ParamRecords == {[v_threshold |-> v] : v \in {1, 2}}
ParamInputs == UNION {[S -> ParamRecords] : S \in SUBSET Labels}

----------------------------------------------------------------------------
(* Specifications.                                                         *)

Init ==
    /\ figs = <<>>
    /\ presented = <<>>
    /\ trace = <<>>
    /\ outcome = "none"
    /\ call = "none"
    /\ args = <<>>
    /\ lookup = NoLookup
    /\ prevLookup = NoLookup

(* Spec: one render call in a fresh process, over the full argument sets.  *)

FirstData ==
    /\ call = "none"
    /\ \E n \in LenCases(DataCap), m \in LenCases(DataCap),
          f \in FeatureNames, t \in TargetNames :
           plot_reservoir_data(Ramp(n), Fall(m), f, t)

FirstActivations ==
    /\ call = "none"
    /\ \E a \in StateInputs : plot_reservoir_activations(a)

FirstPredictions ==
    /\ call = "none"
    /\ \E n \in LenCases(PredictionCap), m \in LenCases(PredictionCap),
          p \in LenCases(PredictionCap),
          f \in FeatureNames, t \in TargetNames :
           plot_reservoir_predictions(Ramp(n), Fall(m), Even(p), f, t)

FirstResults ==
    /\ call = "none"
    /\ \E r \in ResultsInputs, ps \in ParamInputs, strict \in BOOLEAN :
           plot_results(r, ps, strict)

Next == FirstData \/ FirstActivations \/ FirstPredictions \/ FirstResults

Spec == Init /\ [][Next]_vars

(* SpecSession: an interactive session (a notebook, a REPL), where a call  *)
(* that raised returns to the prompt and further calls follow in the same  *)
(* process; a few arguments per function.                                  *)

SessionItem(label) == Item(label, <<1>>)
SessionResults ==
    { <<>>, <<SessionItem("low")>>,
      <<SessionItem("low"), SessionItem("high")>>,
      <<SessionItem("high"), SessionItem("low")>> }
SessionParams ==
    {[l \in S |-> [v_threshold |-> 1]] : S \in {{}, {"low"}, {"low", "high"}}}

\* a session goes on while at most MaxOpenFigs figures are left open
SessionData ==
    /\ \E n \in {1, DataCap + 1} : plot_reservoir_data(Ramp(n), Fall(n), "I", "V")
    /\ Len(figs') <= MaxOpenFigs

SessionActivations ==
    /\ \E a \in {Vector(1), Grid(1, 1)} : plot_reservoir_activations(a)
    /\ Len(figs') <= MaxOpenFigs

SessionPredictions ==
    /\ plot_reservoir_predictions(Ramp(1), Fall(1), Even(1), "I", "V")
    /\ Len(figs') <= MaxOpenFigs

SessionPlotResults ==
    /\ \E r \in SessionResults, ps \in SessionParams, strict \in BOOLEAN :
           plot_results(r, ps, strict)
    /\ Len(figs') <= MaxOpenFigs

SessionNext ==
    SessionData \/ SessionActivations \/ SessionPredictions \/ SessionPlotResults

SpecSession == Init /\ [][SessionNext]_vars

(* SpecCodec: any sequence of codec calls.                                 *)

ToInt == \E s \in StrInputs : CallToInt(s)
ToStr == \E c \in CodeInputs : CallToStr(c)
CodecNext == ToInt \/ ToStr

SpecCodec == Init /\ [][CodecNext]_vars

----------------------------------------------------------------------------
(* Properties.                                                             *)

IsPlot(e) == e.op = "plot"
IsMarker(e) == e.op = "vlines"
IsLegend(e) == e.op = "legend"

\* how many of the calls in ops are calls of method m
Count(ops, m) == Cardinality({i \in DOMAIN ops : ops[i].op = m})

\* the texts an axes carries for method m (its title, an axis label)
Texts(axes, m) == {axes[i].text : i \in {j \in DOMAIN axes : axes[j].op = m}}

\* the lines drawn on an axes, in drawing order, each as its y values
LineData(axes) ==
    LET lines == SelectSeq(axes, IsPlot) IN [j \in DOMAIN lines |-> lines[j].ys[1]]

\* the figure the last call made: the newest of those it presented
OwnFigure == presented[Len(presented)]

Elems(seq) == {seq[i] : i \in DOMAIN seq}

(* C1: the label codec round-trips.  Each valid label is accepted by       *)
(* reservoir_dict_to_int, and feeding the code it returned to              *)
(* reservoir_dict_to_str gives the label back; each valid code is accepted *)
(* by reservoir_dict_to_str, and feeding the label it returned to          *)
(* reservoir_dict_to_int gives the code back.                              *)
C1_RoundTrip ==
    /\ (lookup.fn = "reservoir_dict_to_int" /\ lookup.arg[1] \in ValidLabels)
           => lookup.raised = ""
    /\ (lookup.fn = "reservoir_dict_to_str" /\ lookup.arg[1] \in ValidCodes)
           => lookup.raised = ""
    /\ ( /\ prevLookup.fn = "reservoir_dict_to_int"
         /\ prevLookup.arg[1] \in ValidLabels
         /\ lookup.fn = "reservoir_dict_to_str"
         /\ lookup.arg = prevLookup.value )
           => lookup.value = prevLookup.arg
    /\ ( /\ prevLookup.fn = "reservoir_dict_to_str"
         /\ prevLookup.arg[1] \in ValidCodes
         /\ lookup.fn = "reservoir_dict_to_int"
         /\ lookup.arg = prevLookup.value )
           => lookup.value = prevLookup.arg

C1_Witness ==
    /\ prevLookup.fn = "reservoir_dict_to_int"
    /\ prevLookup.arg = <<"Spikes">>
    /\ lookup.fn = "reservoir_dict_to_str"
    /\ lookup.arg = prevLookup.value
    /\ lookup.value = <<"Spikes">>

(* C2: the codec is defined exactly on its fixed domain.                   *)
(* reservoir_dict_to_int returns Timesteps->0, Input Current->1, Membrane  *)
(* Potential->2, Spikes->3 and raises KeyError, returning nothing, for any *)
(* other string; reservoir_dict_to_str returns the inverse label for 0..3  *)
(* and raises KeyError for any other code.                                 *)
C2_ExactDomain ==
    /\ lookup.fn = "reservoir_dict_to_int" =>
         LET s == lookup.arg[1]
             want == CASE s = "Timesteps" -> Returned(0)
                       [] s = "Input Current" -> Returned(1)
                       [] s = "Membrane Potential" -> Returned(2)
                       [] s = "Spikes" -> Returned(3)
                       [] OTHER -> Raised("KeyError")
         IN lookup.raised = want.raised /\ lookup.value = want.value
    /\ lookup.fn = "reservoir_dict_to_str" =>
         LET c == lookup.arg[1]
             want == CASE c = 0 -> Returned("Timesteps")
                       [] c = 1 -> Returned("Input Current")
                       [] c = 2 -> Returned("Membrane Potential")
                       [] c = 3 -> Returned("Spikes")
                       [] OTHER -> Raised("KeyError")
         IN lookup.raised = want.raised /\ lookup.value = want.value

C2_Witness ==
    /\ lookup.fn = "reservoir_dict_to_str"
    /\ lookup.arg = <<99>>
    /\ lookup.raised = "KeyError"
    /\ prevLookup.fn = "reservoir_dict_to_int"
    /\ prevLookup.arg = <<"bogus">>
    /\ prevLookup.raised = "KeyError"

\* the 1-based position of the first item of results whose label has no
\* entry in param_sets (0 if every label has one)
FirstMissing(results, param_sets) ==
    LET miss == {i \in DOMAIN results : results[i].label \notin DOMAIN param_sets}
    IN IF miss = {} THEN 0 ELSE CHOOSE i \in miss : \A j \in miss : i <= j

(* C3 as stated: when some label of results is missing from param_sets,    *)
(* plot_results fails with KeyError and no drawing operation (figure or    *)
(* subplot creation, line trace, title, reference line, spike marker) has  *)
(* been performed at the moment of failure.                                *)
C3_FailsBeforeDrawing ==
    ( /\ call = "plot_results"
      /\ FirstMissing(args.results, args.param_sets) > 0 )
        => /\ outcome = "KeyError"
           /\ \A i \in DOMAIN trace :
                  trace[i].op \notin
                      {"figure", "subplots", "plot", "title", "axhline", "vlines"}

(* C3 amended: when some label of results is missing from param_sets,      *)
(* plot_results fails with KeyError before the figure is presented, not    *)
(* before drawing.  With k the position of the first such label: the       *)
(* subplot grid has been created; the k-1 rows before it are drawn in full *)
(* (threshold line, legend, spike markers); of row k the input-current     *)
(* title and trace and the membrane-potential title and trace are drawn,   *)
(* the membrane-potential trace being the last thing drawn; row k has no   *)
(* threshold line, legend or spike markers; no later row is drawn; neither *)
(* tight_layout nor show has been called and nothing is presented.         *)
C3_FailsBeforePresenting ==
    ( /\ call = "plot_results"
      /\ FirstMissing(args.results, args.param_sets) > 0 )
        => LET k == FirstMissing(args.results, args.param_sets)
               last == trace[Len(trace)]
           IN /\ outcome = "KeyError"
              /\ Len(trace) > 0
              /\ trace[1].op = "subplots"
              /\ Count(trace, "subplots") = 1
              /\ Count(trace, "plot") = 2 * k
              /\ Count(trace, "title") = 2 * k
              /\ Count(trace, "vlines") = k - 1
              /\ Count(trace, "legend") = k - 1
              /\ Cardinality({i \in DOMAIN trace :
                     trace[i].op = "axhline" /\ trace[i].text = "Threshold"}) = k - 1
              /\ last.op = "plot"
              /\ last.ys = <<args.results[k].membrane_potential>>
              /\ Count(trace, "tight_layout") = 0
              /\ Count(trace, "show") = 0
              /\ presented = <<>>

C3_Witness ==
    /\ call = "plot_results"
    /\ outcome = "KeyError"
    /\ Len(args.results) = 2
    /\ FirstMissing(args.results, args.param_sets) = 2
    /\ Count(trace, "vlines") = 1
    /\ Count(trace, "plot") = 4

\* the pyplot calls other than show that a complete run of the last call
\* makes, counted from the source
StepsOfCompleteRun ==
    CASE call = "plot_reservoir_data" -> 3
      [] call = "plot_reservoir_activations" -> 5
      [] call = "plot_reservoir_predictions" -> 7
      [] call = "plot_results" ->
             LET n == Len(args.results) IN
             IF n = 1 THEN 1 + 11 + 1 ELSE 1 + 12 * n + 1

(* C4: no partial success.  A render call either makes every one of its    *)
(* drawing calls and then, as its last step and only once, presents the    *)
(* chart; or it fails and plt.show has not been called during the call.    *)
C4_NoPartialSuccess ==
    call # "none" =>
        /\ outcome = "ok" =>
             /\ Len(trace) = StepsOfCompleteRun + 1
             /\ trace[Len(trace)].op = "show"
             /\ Count(trace, "show") = 1
             /\ presented # <<>>
        /\ outcome # "ok" =>
             /\ Count(trace, "show") = 0
             /\ presented = <<>>

C4_Witness ==
    /\ call = "plot_reservoir_activations"
    /\ outcome = "IndexError"
    /\ Count(trace, "figure") = 1
    /\ Count(trace, "title") = 1
    /\ figs # <<>>

(* C5: each call displays its own chart only.  After any sequence of       *)
(* render calls, failed ones included, what a successful call presents is  *)
(* exactly what its own pyplot calls build starting from no open figure:   *)
(* nothing an earlier call drew is presented or drawn onto.                *)
C5_OwnChartOnly ==
    outcome = "ok" =>
        presented = Exec([figs |-> <<>>, presented |-> <<>>], trace).presented

(* C6: plot_results lays out and presents in order.  For non-empty results *)
(* whose labels all have an entry in param_sets the call succeeds; its     *)
(* figure has len(results) rows of two subplots; row i has on the left the *)
(* title and trace of the input current of the i-th item and on the right  *)
(* those of its membrane potential, with the threshold line at the         *)
(* configured value; the figure is presented once, as the last step.       *)
C6_LayoutInOrder ==
    ( /\ call = "plot_results"
      /\ Len(args.results) >= 1
      /\ FirstMissing(args.results, args.param_sets) = 0 )
        => /\ outcome = "ok"
           /\ Len(OwnFigure) = 2 * Len(args.results)
           /\ \A i \in DOMAIN args.results :
                LET item == args.results[i]
                    left == OwnFigure[2 * i - 1]
                    right == OwnFigure[2 * i]
                IN /\ Texts(left, "title") = {item.label \o " - Input Current"}
                   /\ LineData(left) = <<item.input_current>>
                   /\ Texts(right, "title") = {item.label \o " - Membrane Potential"}
                   /\ LineData(right) = <<item.membrane_potential>>
                   /\ \E e \in Elems(right) :
                          /\ e.op = "axhline" /\ e.text = "Threshold"
                          /\ e.ys = << <<args.param_sets[item.label].v_threshold>> >>
           /\ Count(trace, "show") = 1
           /\ trace[Len(trace)].op = "show"

C6_Witness ==
    /\ call = "plot_results"
    /\ outcome = "ok"
    /\ Len(args.results) = 2
    /\ args.results[1].label = "high"
    /\ args.results[2].label = "low"
    /\ Len(args.results[1].time) = 2
    /\ Len(OwnFigure) = 4

(* C7: spike markers are exact.  In every row of a completed plot_results, *)
(* single-entry or multi-entry, the marker positions on the                *)
(* membrane-potential subplot are exactly the values time[k] at the        *)
(* positions k where spikes[k] is truthy (not zero), and the input-current *)
(* subplot carries no marker.                                              *)
C7_SpikeMarkersExact ==
    (call = "plot_results" /\ outcome = "ok") =>
        \A i \in DOMAIN args.results :
            LET item == args.results[i]
                marks == SelectSeq(OwnFigure[2 * i], IsMarker)
            IN /\ Len(marks) = 1
               /\ Elems(marks[1].x) =
                      {item.time[k] : k \in {j \in DOMAIN item.spikes : item.spikes[j] # 0}}
               /\ SelectSeq(OwnFigure[2 * i - 1], IsMarker) = <<>>

C7_Witness ==
    /\ call = "plot_results"
    /\ outcome = "ok"
    /\ Len(args.results) = 2
    /\ args.results[1].spikes = <<1, 0>>
    /\ args.results[2].spikes = <<0, 2>>
    /\ \E e \in Elems(OwnFigure[4]) : e.op = "vlines" /\ e.x = <<20>>

(* C8: plot_reservoir_predictions draws exactly three traces: the first    *)
(* min(len(x_train), 70) samples of x_train, all of y_pred whatever its    *)
(* length, and the first min(len(y_train), 70) samples of y_train; shorter *)
(* inputs are drawn in full and the call does not fail.                    *)
C8_PredictionTraces ==
    call = "plot_reservoir_predictions" =>
        /\ outcome = "ok"
        /\ Len(OwnFigure) = 1
        /\ LET data == LineData(OwnFigure[1])
               nx == IF Len(args.x_train) < 70 THEN Len(args.x_train) ELSE 70
               ny == IF Len(args.y_train) < 70 THEN Len(args.y_train) ELSE 70
           IN /\ Len(data) = 3
              /\ data[1] = [k \in 1..nx |-> args.x_train[k]]
              /\ data[2] = args.y_pred
              /\ data[3] = [k \in 1..ny |-> args.y_train[k]]

C8_Witness ==
    /\ call = "plot_reservoir_predictions"
    /\ Len(args.x_train) = 72
    /\ Len(args.y_train) = 1
    /\ Len(args.y_pred) = 72
    /\ Len(LineData(OwnFigure[1])[2]) = 72
    /\ Len(LineData(OwnFigure[1])[1]) = 70

(* C9: plot_reservoir_data draws exactly two traces, the first             *)
(* min(len(x_train), 50) samples of x_train and the first                  *)
(* min(len(y_train), 50) samples of y_train in their order, and the legend *)
(* it builds has the entries "Reservoir input: <input name>" and           *)
(* "Reservoir target: <target name>"; a shorter sequence is drawn in full  *)
(* without error.  (What the call draws: the traces of its plot calls, and *)
(* the legend of the axes they land on.)                                   *)
C9_DataTraces ==
    call = "plot_reservoir_data" =>
        /\ outcome = "ok"
        /\ LET plots == SelectSeq(trace, IsPlot)
               legends == SelectSeq(OwnFigure[Len(OwnFigure)], IsLegend)
               nx == IF Len(args.x_train) < 50 THEN Len(args.x_train) ELSE 50
               ny == IF Len(args.y_train) < 50 THEN Len(args.y_train) ELSE 50
           IN /\ Len(plots) = 2
              /\ plots[1].ys = << [k \in 1..nx |-> args.x_train[k]] >>
              /\ plots[2].ys = << [k \in 1..ny |-> args.y_train[k]] >>
              /\ Len(legends) = 1
              /\ legends[1].entries =
                     << "Reservoir input: " \o args.reservoir_input_feature,
                        "Reservoir target: " \o args.reservoir_target >>
              /\ (args.reservoir_input_feature = "I" /\ args.reservoir_target = "V")
                     => legends[1].entries = <<"Reservoir input: I", "Reservoir target: V">>

C9_Witness ==
    /\ call = "plot_reservoir_data"
    /\ Len(args.x_train) = 52
    /\ Len(args.y_train) = 49
    /\ args.reservoir_input_feature = "I"
    /\ args.reservoir_target = "V"
    /\ Len(LineData(OwnFigure[1])[1]) = 50
    /\ Len(LineData(OwnFigure[1])[2]) = 49

(* C10: plot_reservoir_activations on a grid of R rows and C columns draws *)
(* exactly min(C, 20) traces, the j-th being column j over all R rows;     *)
(* with fewer than 20 columns every column is drawn.                       *)
C10_ActivationTraces ==
    ( /\ call = "plot_reservoir_activations"
      /\ Len(args.reservoir_states.shape) = 2 )
        => LET R == args.reservoir_states.shape[1]
               C == args.reservoir_states.shape[2]
               n == IF C < 20 THEN C ELSE 20
           IN /\ outcome = "ok"
              /\ Len(OwnFigure) = 1
              /\ LineData(OwnFigure[1]) =
                     [j \in 1..n |-> [r \in 1..R |-> args.reservoir_states.data[r][j]]]

C10_Witness ==
    /\ call = "plot_reservoir_activations"
    /\ args.reservoir_states.shape = <<2, 22>>
    /\ Len(LineData(OwnFigure[1])) = 20
    /\ Len(LineData(OwnFigure[1])[20]) = 2

============================================================================
